---- MODULE Spec2Model ----
(***************************************************************************)
(* Frame-acquisition-and-differencing pipeline of video-as-a-sensor:       *)
(* e3/processor/worker.py (full-frame variant) and                         *)
(* e3/processor/worker2.py (ROI variant).  One sequential worker: open the *)
(* stream with a bounded retry, read frames, difference each against the   *)
(* stored snapshot, emit artifacts and cadence reports, reconnect on a     *)
(* read failure.                                                           *)
(***************************************************************************)
EXTENDS Integers, Sequences, FiniteSets, TLC

VARIABLES
    variant,        \* "full" (worker.py) or "roi" (worker2.py)
    pc,             \* position of the worker in the script
    caller,         \* call site of the running open_capture: "init" / "reconnect"
    i,              \* loop index of open_capture's for loop
    cap,            \* the handle bound to the global cap
    frames,         \* frames
    prev,           \* prev_gray / prev_gray_roi
    roi_box,        \* roi_box (worker2.py)
    h, w,           \* h, w: the dimensions last taken from a frame
    tries,          \* VideoCapture constructions in the current open_capture call
    waited,         \* time slept inside the current open_capture call
    opened_at,      \* number of the attempt that reported opened (0: none yet)
    open_result,    \* outcome of the current open_capture call
    connected_once, \* the initial open_capture call has returned
    since_fail,     \* a read failed and no frame has been processed since
    prev_stale,     \* prev holds a frame read before the last read failure
    conn_frames,    \* the connection in use has delivered a frame
    roi_calls,      \* calculate_roi_box calls on the connection in use
    last,           \* what the last loop iteration did
    ocap,           \* the handle bound to open_capture's local cap
    t0,             \* t0: where the start time was taken
    fail_wait,      \* tenths of a time unit slept in the read-failure branch
    hist,           \* the emissions and reports recorded so far
    req,            \* the request validate is serving
    decision        \* the response of validate

vars == <<variant, pc, caller, i, cap, frames, prev, roi_box, h, w, tries,
          waited, opened_at, open_result, connected_once, since_fail,
          prev_stale, conn_frames, roi_calls, last, ocap, t0, fail_wait,
          hist, req, decision>>

(***************************************************************************)
(* Bounds of the model.                                                    *)
(***************************************************************************)
MaxFrames == 151
MaxHeight == 210
MaxWidth == 420
CallCap == 2
DiffFrames == 3
ShortFrames == 5
SmallHeight == 8
SmallWidth == 12
MaxArgLen == 5

(***************************************************************************)
(* Constants of the program.                                               *)
(***************************************************************************)
OpenRetries == 30
RetryDelay == 1
FailDelayTenths == 5
change_threshold == 10
Cadence == 150
FullBar == 1000
RoiBar == 100
MinBox == 50

None == [none |-> TRUE]
FullFrame == [full |-> TRUE]

Max2(a, b) == IF a >= b THEN a ELSE b
Min2(a, b) == IF a <= b THEN a ELSE b
Abs(a) == IF a >= 0 THEN a ELSE 0 - a

(***************************************************************************)
(* calculate_roi_box: the box centred in the right half of the frame.      *)
(***************************************************************************)
calculate_roi_box_nofloor(frame_height, frame_width) ==
    LET right_half_start == frame_width \div 2
        right_half_width == frame_width - right_half_start
        box_width  == right_half_width \div 4
        box_height == frame_height \div 4
        x1 == right_half_start + ((right_half_width - box_width) \div 2)
        y1 == (frame_height - box_height) \div 2
    IN  [x1 |-> x1, y1 |-> y1, x2 |-> x1 + box_width, y2 |-> y1 + box_height]

calculate_roi_box_whole(frame_height, frame_width) ==
    LET box_width  == Max2(frame_width \div 4, MinBox)
        box_height == Max2(frame_height \div 4, MinBox)
        x1 == (frame_width - box_width) \div 2
        y1 == (frame_height - box_height) \div 2
    IN  [x1 |-> x1, y1 |-> y1, x2 |-> x1 + box_width, y2 |-> y1 + box_height]

calculate_roi_box(frame_height, frame_width) ==
    LET right_half_start == frame_width \div 2
        right_half_width == frame_width - right_half_start
        box_width  == Max2(right_half_width \div 4, MinBox)
        box_height == Max2(frame_height \div 4, MinBox)
        x1 == right_half_start + ((right_half_width - box_width) \div 2)
        y1 == (frame_height - box_height) \div 2
    IN  [x1 |-> x1, y1 |-> y1, x2 |-> x1 + box_width, y2 |-> y1 + box_height]

(***************************************************************************)
(* Frames.  A frame is the grayscale image cvtColor yields for a read      *)
(* frame: h rows, w columns, intensity bg everywhere except the first n    *)
(* pixels (row-major) of the patch of width pw anchored at row oy, column  *)
(* ox, which have intensity fg.  Rows and columns count from 0.            *)
(***************************************************************************)
Pixel(f, r, c) ==
    LET dr == r - f.oy
        dc == c - f.ox
    IN  IF dr >= 0 /\ dc >= 0 /\ dc < f.pw /\ dr * f.pw + dc < f.n
        THEN f.fg ELSE f.bg

Img(hh, ww, n) ==
    [h |-> hh, w |-> ww, bg |-> 0, fg |-> 200, n |-> n, oy |-> 0, ox |-> 50, pw |-> 50]

\* blank frames of two sizes, and frames with as many bright pixels as the
\* variant's emission bar and one more
Palette(v) ==
    IF v = "full"
    THEN { Img(50, 100, 0), Img(50, 100, 1000), Img(50, 100, 1001), Img(50, 98, 0) }
    ELSE { Img(50, 100, 0), Img(50, 100, 100), Img(50, 100, 101), Img(50, 98, 0) }

\* a frame of one intensity
Gray(hh, ww, level) ==
    [h |-> hh, w |-> ww, bg |-> level, fg |-> level, n |-> 0, oy |-> 0, ox |-> 0, pw |-> 1]

\* the palette and three small frames of one intensity each, which differ
\* from one another by the threshold, by one more and by one
DiffPalette(v) ==
    Palette(v) \cup { Gray(SmallHeight, SmallWidth, 0),
                      Gray(SmallHeight, SmallWidth, change_threshold),
                      Gray(SmallHeight, SmallWidth, change_threshold + 1) }

(***************************************************************************)
(* gray[a:b] on an axis of length n: the half-open range numpy selects.    *)
(***************************************************************************)
SliceBound(n, a) == IF a < 0 THEN Max2(a + n, 0) ELSE Min2(a, n)
SliceLen(n, a, b) == Max2(SliceBound(n, b) - SliceBound(n, a), 0)

(***************************************************************************)
(* A snapshot is a frame together with the region sliced out of it:        *)
(* the whole frame (worker.py) or gray[y1:y2, x1:x2] (worker2.py).         *)
(***************************************************************************)
Snapshot(f, box) == [f |-> f, box |-> box]

Row0(s) == IF s.box = FullFrame THEN 0 ELSE SliceBound(s.f.h, s.box.y1)
Col0(s) == IF s.box = FullFrame THEN 0 ELSE SliceBound(s.f.w, s.box.x1)
Rows(s) == IF s.box = FullFrame THEN s.f.h ELSE SliceLen(s.f.h, s.box.y1, s.box.y2)
Cols(s) == IF s.box = FullFrame THEN s.f.w ELSE SliceLen(s.f.w, s.box.x1, s.box.x2)
Shape(s) == <<Rows(s), Cols(s)>>

(***************************************************************************)
(* cv2.absdiff, np.sum(diff > change_threshold), np.max, np.mean.          *)
(***************************************************************************)
RECURSIVE SumOver(_, _, _)
SumOver(F, lo, hi) ==
    IF lo > hi THEN 0
    ELSE IF lo = hi THEN F[lo]
    ELSE LET mid == (lo + hi) \div 2
         IN  SumOver(F, lo, mid) + SumOver(F, mid + 1, hi)

RECURSIVE MaxOver(_, _, _)
MaxOver(F, lo, hi) ==
    IF lo > hi THEN 0
    ELSE IF lo = hi THEN F[lo]
    ELSE LET mid == (lo + hi) \div 2
         IN  Max2(MaxOver(F, lo, mid), MaxOver(F, mid + 1, hi))

AbsDiff(a, b) == Abs(a - b)

ExceedsBelow(d) == d < change_threshold

ExceedsGE(d) == d >= change_threshold

Exceeds(d) == d > change_threshold

DiffStats(p, c) ==
    LET nr == Rows(c)
        nc == Cols(c)
        pr == Row0(p)
        pk == Col0(p)
        cr == Row0(c)
        ck == Col0(c)
        diff == [r \in 0..(nr - 1) |-> [k \in 0..(nc - 1) |->
                    AbsDiff(Pixel(p.f, pr + r, pk + k), Pixel(c.f, cr + r, ck + k))]]
        rowcnt == [r \in 0..(nr - 1) |->
                     Cardinality({k \in 0..(nc - 1) : Exceeds(diff[r][k])})]
        rowsum == [r \in 0..(nr - 1) |-> SumOver(diff[r], 0, nc - 1)]
        rowmax == [r \in 0..(nr - 1) |-> MaxOver(diff[r], 0, nc - 1)]
    IN  [changed |-> SumOver(rowcnt, 0, nr - 1),
         maxd    |-> MaxOver(rowmax, 0, nr - 1),
         sumd    |-> SumOver(rowsum, 0, nr - 1),
         area    |-> nr * nc]

(***************************************************************************)
(* The statistics of every pair of same-shaped snapshots of the palette,   *)
(* evaluated once.  Stats(p, c) is DiffStats(p, c).                        *)
(***************************************************************************)
SnapPairs ==
    LET full == {<<p, c, FullFrame>> : p \in Palette("full"), c \in Palette("full")}
        roi  == UNION {{<<p, c, calculate_roi_box(g.h, g.w)>> :
                            p \in Palette("roi"), c \in Palette("roi")} :
                       g \in Palette("roi")}
    IN  {k \in full \cup roi :
            Shape(Snapshot(k[1], k[3])) = Shape(Snapshot(k[2], k[3]))}

StatsTable ==
    {<<k, DiffStats(Snapshot(k[1], k[3]), Snapshot(k[2], k[3]))>> : k \in SnapPairs}

Stats(p, c) ==
    IF p.box = c.box /\ <<p.f, c.f, c.box>> \in SnapPairs
    THEN (CHOOSE e \in StatsTable : e[1] = <<p.f, c.f, c.box>>)[2]
    ELSE DiffStats(p, c)

ZeroStats == [changed |-> 0, maxd |-> 0, sumd |-> 0, area |-> 0]

(***************************************************************************)
(* full_diff = np.zeros_like(gray); full_diff[y1:y2, x1:x2] = diff_roi:    *)
(* the value of the canvas at row r, column k of the frame.                *)
(***************************************************************************)
CanvasAtOrigin(p, c, r, k) ==
    IF r < Rows(c) /\ k < Cols(c)
    THEN AbsDiff(Pixel(p.f, Row0(p) + r, Col0(p) + k),
                 Pixel(c.f, Row0(c) + r, Col0(c) + k))
    ELSE 0

CanvasAt(p, c, r, k) ==
    LET r0 == Row0(c)
        k0 == Col0(c)
    IN  IF r >= r0 /\ r < r0 + Rows(c) /\ k >= k0 /\ k < k0 + Cols(c)
        THEN AbsDiff(Pixel(p.f, Row0(p) + (r - r0), Col0(p) + (k - k0)),
                     Pixel(c.f, r, k))
        ELSE 0

(***************************************************************************)
(* What a frame's two operands and canvas look like, pixel by pixel:       *)
(* whether the regions are identical, whether every pixel differs by       *)
(* exactly d, whether the canvas is zero at every pixel outside the box    *)
(* and whether inside it the canvas shows the difference of the two        *)
(* frames at that pixel.                                                   *)
(***************************************************************************)
RegionsEqual(p, c) ==
    \A r \in 0..(Rows(c) - 1) : \A k \in 0..(Cols(c) - 1) :
        Pixel(p.f, Row0(p) + r, Col0(p) + k) = Pixel(c.f, Row0(c) + r, Col0(c) + k)

EveryDiffIs(p, c, d) ==
    \A r \in 0..(Rows(c) - 1) : \A k \in 0..(Cols(c) - 1) :
        Abs(Pixel(p.f, Row0(p) + r, Col0(p) + k)
              - Pixel(c.f, Row0(c) + r, Col0(c) + k)) = d

InBox(b, r, k) == b.y1 <= r /\ r < b.y2 /\ b.x1 <= k /\ k < b.x2

CanvasZeroOutside(p, c) ==
    \A r \in 0..(c.f.h - 1) : \A k \in 0..(c.f.w - 1) :
        ~InBox(c.box, r, k) => CanvasAt(p, c, r, k) = 0

CanvasShowsRegion(p, c) ==
    \A r \in 0..(c.f.h - 1) : \A k \in 0..(c.f.w - 1) :
        InBox(c.box, r, k) =>
            CanvasAt(p, c, r, k) = Abs(Pixel(p.f, r, k) - Pixel(c.f, r, k))

View(p, c) ==
    [same      |-> RegionsEqual(p, c),
     all_10    |-> EveryDiffIs(p, c, change_threshold),
     all_11    |-> EveryDiffIs(p, c, change_threshold + 1),
     canvas_ok |-> c.box # FullFrame =>
                       (CanvasZeroOutside(p, c) /\ CanvasShowsRegion(p, c))]

ViewTable ==
    {<<k, View(Snapshot(k[1], k[3]), Snapshot(k[2], k[3]))>> : k \in SnapPairs}

Views(p, c) ==
    IF p.box = c.box /\ <<p.f, c.f, c.box>> \in SnapPairs
    THEN (CHOOSE e \in ViewTable : e[1] = <<p.f, c.f, c.box>>)[2]
    ELSE View(p, c)

NoView == [same |-> FALSE, all_10 |-> FALSE, all_11 |-> FALSE, canvas_ok |-> TRUE]

(***************************************************************************)
(* Decisions of the main loop.                                             *)
(***************************************************************************)
Bar == IF variant = "full" THEN FullBar ELSE RoiBar

EmitDecisionGE(have_diff, idx, changed_pixels) ==
    have_diff /\ (idx % Cadence = 0 \/ changed_pixels >= Bar)

EmitDecisionBeforeIncrement(have_diff, idx, changed_pixels) ==
    have_diff /\ ((idx - 1) % Cadence = 0 \/ changed_pixels > Bar)

EmitDecision(have_diff, idx, changed_pixels) ==
    have_diff /\ (idx % Cadence = 0 \/ changed_pixels > Bar)

ReportDecisionWithDiff(have_diff, idx) == have_diff /\ idx % Cadence = 0

ReportDecision(have_diff, idx) == idx % Cadence = 0

NeedRoiAlways(box) == TRUE

NeedRoi(box) == box = None

LoopContinuesOffByOne(k) == k <= OpenRetries

LoopContinues(k) == k < OpenRetries

NoLast == [kind |-> "none"]

(***************************************************************************)
(* Handles.  A handle is a cv2.VideoCapture object: whether it reported    *)
(* opened and has been released, and whether the most recent open_capture  *)
(* call constructed it ("this") or an earlier one ("earlier").             *)
(***************************************************************************)
NoHandle == [state |-> "unbound", born |-> "none"]

NewHandle(state) == [state |-> state, born |-> "this"]

Aged(hd) == IF hd = NoHandle THEN hd ELSE [hd EXCEPT !.born = "earlier"]

Unset == [taken |-> "never"]

NoHist == [emit_idx |-> 0, prev_emit |-> 0, emit_changed |-> 0,
           report_idx |-> 0, prev_report |-> 0]

(***************************************************************************)
(* app.py.  A text is a sequence of pieces: the separators "&" and "=",    *)
(* and words that contain neither.  A query parameter is absent            *)
(* (request.args.get gives None) or is given with a text, possibly empty.  *)
(***************************************************************************)
Absent == [given |-> FALSE, text |-> <<>>]

Given(t) == [given |-> TRUE, text |-> t]

NoRequest == [name |-> Absent, token |-> Absent, args |-> Absent]

\* not x, for x None or a str
Falsy(x) == ~x.given \/ x.text = <<>>

\* the position of the first sep in t, or 0
Find(t, sep) ==
    IF \E j \in 1..Len(t) : t[j] = sep
    THEN CHOOSE j \in 1..Len(t) : t[j] = sep /\ \A m \in 1..(j - 1) : t[m] # sep
    ELSE 0

\* t.split(sep)
RECURSIVE Split(_, _)
Split(t, sep) ==
    LET j == Find(t, sep)
    IN  IF j = 0 THEN <<t>>
        ELSE <<SubSeq(t, 1, j - 1)>> \o Split(SubSeq(t, j + 1, Len(t)), sep)

\* k, _, v = t.partition(sep)
Partition(t, sep) ==
    LET j == Find(t, sep)
    IN  IF j = 0 THEN [k |-> t, v |-> <<>>]
        ELSE [k |-> SubSeq(t, 1, j - 1), v |-> SubSeq(t, j + 1, Len(t))]

RECURSIVE ScanPairsNoBreak(_, _)
ScanPairsNoBreak(pairs, token) ==
    IF pairs = <<>> THEN token
    ELSE LET kv == Partition(Head(pairs), "=")
         IN  ScanPairsNoBreak(Tail(pairs),
                              IF kv.k = <<"token">> THEN Given(kv.v) ELSE token)

\* for pair in ...: if k == "token": token = v; break
RECURSIVE ScanPairs(_, _)
ScanPairs(pairs, token) ==
    IF pairs = <<>> THEN token
    ELSE LET kv == Partition(Head(pairs), "=")
         IN  IF kv.k = <<"token">> THEN Given(kv.v)
             ELSE ScanPairs(Tail(pairs), token)

validate(r) ==
    LET token == IF Falsy(r.token) /\ ~Falsy(r.args)
                 THEN ScanPairs(Split(r.args.text, "&"), r.token)
                 ELSE r.token
    IN  IF r.name # Given(<<"mystream">>) THEN 403
        ELSE IF token # Given(<<"supersecret">>) THEN 403
        ELSE 200

\* the requests served: every args text of up to MaxArgLen pieces
RECURSIVE Texts(_, _)
Texts(alphabet, n) ==
    IF n = 0 THEN {<<>>}
    ELSE LET shorter == Texts(alphabet, n - 1)
         IN  shorter \cup {Append(t, a) : t \in shorter, a \in alphabet}

Requests ==
    [name  : {Absent, Given(<<>>), Given(<<"mystream">>), Given(<<"other">>)},
     token : {Absent, Given(<<>>), Given(<<"supersecret">>), Given(<<"wrong">>)},
     args  : {Absent} \cup
             {Given(t) : t \in Texts({"token", "supersecret", "=", "&"}, MaxArgLen)}]

(***************************************************************************)
(* Initial state: the script is about to call open_capture(url).           *)
(***************************************************************************)
Init ==
    /\ variant \in {"full", "roi"}
    /\ pc = "start"
    /\ caller = "init"
    /\ i = 0
    /\ cap = NoHandle
    /\ frames = 0
    /\ prev = None
    /\ roi_box = None
    /\ h = 0
    /\ w = 0
    /\ tries = 0
    /\ waited = 0
    /\ opened_at = 0
    /\ open_result = "none"
    /\ connected_once = FALSE
    /\ since_fail = FALSE
    /\ prev_stale = FALSE
    /\ conn_frames = FALSE
    /\ roi_calls = 0
    /\ last = NoLast
    /\ ocap = NoHandle
    /\ t0 = Unset
    /\ fail_wait = 0
    /\ hist = NoHist
    /\ req = NoRequest
    /\ decision = "none"

EnterOpen(site) ==
    /\ caller' = site
    /\ i' = 0
    /\ tries' = 0
    /\ waited' = 0
    /\ opened_at' = 0
    /\ open_result' = "running"
    /\ cap' = Aged(cap)
    /\ ocap' = NoHandle
    /\ pc' = "attempt"

\* cap = open_capture(url): the initial call
Start ==
    /\ pc = "start"
    /\ EnterOpen("init")
    /\ UNCHANGED <<variant, frames, prev, roi_box, h, w, connected_once,
                   since_fail, prev_stale, conn_frames, roi_calls, last, t0,
                   fail_wait, hist, req, decision>>

\* cv2.VideoCapture(u) reports opened: open_capture returns the handle
AttemptOpened ==
    /\ pc = "attempt"
    /\ tries' = tries + 1
    /\ opened_at' = tries + 1
    /\ open_result' = "returned"
    /\ ocap' = NewHandle("opened")
    /\ connected_once' = TRUE
    /\ pc' = IF caller = "init" THEN "setup" ELSE "reset"
    /\ UNCHANGED <<variant, caller, i, frames, prev, roi_box, h, w, waited,
                   since_fail, prev_stale, conn_frames, roi_calls, last, cap,
                   t0, fail_wait, hist, req, decision>>

\* cv2.VideoCapture(u) does not report opened
AttemptFailed ==
    /\ pc = "attempt"
    /\ tries' = tries + 1
    /\ ocap' = NewHandle("closed")
    /\ pc' = "open_sleep"
    /\ UNCHANGED <<variant, caller, i, cap, frames, prev, roi_box, h, w,
                   waited, opened_at, open_result, connected_once,
                   since_fail, prev_stale, conn_frames, roi_calls, last, t0,
                   fail_wait, hist, req, decision>>

\* time.sleep(1), then the next turn of the for loop or the raise
OpenSleep ==
    /\ pc = "open_sleep"
    /\ waited' = waited + RetryDelay
    /\ i' = i + 1
    /\ IF LoopContinues(i + 1)
       THEN pc' = "attempt" /\ UNCHANGED open_result
       ELSE pc' = "exited" /\ open_result' = "raised"
    /\ UNCHANGED <<variant, caller, cap, frames, prev, roi_box, h, w, tries,
                   opened_at, connected_once, since_fail, prev_stale,
                   conn_frames, roi_calls, last, ocap, t0, fail_wait, hist,
                   req, decision>>

LeaveOpenUnbound ==
    /\ cap' = cap
    /\ ocap' = NoHandle
    /\ i' = 0
    /\ tries' = 0
    /\ waited' = 0
    /\ opened_at' = 0
    /\ open_result' = "none"

\* open_capture has returned: the caller binds the returned handle to cap
\* and the locals of the call are gone
LeaveOpen ==
    /\ cap' = ocap
    /\ ocap' = NoHandle
    /\ i' = 0
    /\ tries' = 0
    /\ waited' = 0
    /\ opened_at' = 0
    /\ open_result' = "none"

\* t0, frames, prev_gray, change_threshold, roi_box after the first connection
Setup ==
    /\ pc = "setup"
    /\ frames' = 0
    /\ prev' = None
    /\ roi_box' = None
    /\ t0' = [taken |-> "setup"]
    /\ pc' = "read"
    /\ LeaveOpen
    /\ UNCHANGED <<variant, caller, h, w, connected_once, since_fail,
                   prev_stale, conn_frames, roi_calls, last, fail_wait, hist,
                   req, decision>>

ReadFailBreaks ==
    /\ pc = "read"
    /\ pc' = "exited"
    /\ since_fail' = TRUE
    /\ prev_stale' = (prev # None)
    /\ conn_frames' = FALSE
    /\ roi_calls' = 0
    /\ last' = NoLast
    /\ UNCHANGED <<variant, caller, i, cap, frames, prev, roi_box, h, w,
                   tries, waited, opened_at, open_result, connected_once,
                   ocap, t0, fail_wait, hist, req, decision>>

\* ok, frame = cap.read() with ok false
ReadFail ==
    /\ pc = "read"
    /\ pc' = "fail_sleep"
    /\ since_fail' = TRUE
    /\ prev_stale' = (prev # None)
    /\ conn_frames' = FALSE
    /\ roi_calls' = 0
    /\ last' = NoLast
    /\ UNCHANGED <<variant, caller, i, cap, frames, prev, roi_box, h, w,
                   tries, waited, opened_at, open_result, connected_once,
                   ocap, t0, fail_wait, hist, req, decision>>

\* time.sleep(0.5)
FailSleep ==
    /\ pc = "fail_sleep"
    /\ fail_wait' = fail_wait + FailDelayTenths
    /\ pc' = "release"
    /\ UNCHANGED <<variant, caller, i, cap, frames, prev, roi_box, h, w,
                   tries, waited, opened_at, open_result, connected_once,
                   since_fail, prev_stale, conn_frames, roi_calls, last,
                   ocap, t0, hist, req, decision>>

ReleaseSkipped ==
    /\ pc = "release"
    /\ cap' = cap
    /\ pc' = "reopen"
    /\ UNCHANGED <<variant, caller, i, frames, prev, roi_box, h, w, tries,
                   waited, opened_at, open_result, connected_once,
                   since_fail, prev_stale, conn_frames, roi_calls, last,
                   ocap, t0, fail_wait, hist, req, decision>>

\* cap.release()
Release ==
    /\ pc = "release"
    /\ cap' = [cap EXCEPT !.state = "released"]
    /\ pc' = "reopen"
    /\ UNCHANGED <<variant, caller, i, frames, prev, roi_box, h, w, tries,
                   waited, opened_at, open_result, connected_once,
                   since_fail, prev_stale, conn_frames, roi_calls, last,
                   ocap, t0, fail_wait, hist, req, decision>>

\* cap = open_capture(url): the call in the read-failure branch
Reopen ==
    /\ pc = "reopen"
    /\ EnterOpen("reconnect")
    /\ UNCHANGED <<variant, frames, prev, roi_box, h, w, connected_once,
                   since_fail, prev_stale, conn_frames, roi_calls, last, t0,
                   fail_wait, hist, req, decision>>

ResetKeepsPrev ==
    /\ pc = "reset"
    /\ prev' = prev
    /\ roi_box' = None
    /\ prev_stale' = (prev' # None /\ prev_stale)
    /\ fail_wait' = 0
    /\ pc' = "read"
    /\ LeaveOpen
    /\ UNCHANGED <<variant, caller, frames, h, w, connected_once, since_fail,
                   conn_frames, roi_calls, last, t0, hist, req, decision>>

ResetKeepsRoi ==
    /\ pc = "reset"
    /\ prev' = None
    /\ roi_box' = roi_box
    /\ prev_stale' = (prev' # None /\ prev_stale)
    /\ fail_wait' = 0
    /\ pc' = "read"
    /\ LeaveOpen
    /\ UNCHANGED <<variant, caller, frames, h, w, connected_once, since_fail,
                   conn_frames, roi_calls, last, t0, hist, req, decision>>

ResetRestartsClock ==
    /\ pc = "reset"
    /\ prev' = None
    /\ roi_box' = None
    /\ prev_stale' = (prev' # None /\ prev_stale)
    /\ fail_wait' = 0
    /\ t0' = [taken |-> "reset"]
    /\ pc' = "read"
    /\ LeaveOpen
    /\ UNCHANGED <<variant, caller, frames, h, w, connected_once, since_fail,
                   conn_frames, roi_calls, last, hist, req, decision>>

ResetClearsFrames ==
    /\ pc = "reset"
    /\ prev' = None
    /\ roi_box' = None
    /\ prev_stale' = (prev' # None /\ prev_stale)
    /\ fail_wait' = 0
    /\ frames' = 0
    /\ pc' = "read"
    /\ LeaveOpen
    /\ UNCHANGED <<variant, caller, h, w, connected_once, since_fail,
                   conn_frames, roi_calls, last, t0, hist, req, decision>>

\* prev_gray = None (and roi_box = None in worker2.py), continue
Reset ==
    /\ pc = "reset"
    /\ prev' = None
    /\ roi_box' = None
    /\ prev_stale' = (prev' # None /\ prev_stale)
    /\ fail_wait' = 0
    /\ pc' = "read"
    /\ LeaveOpen
    /\ UNCHANGED <<variant, caller, frames, h, w, connected_once, since_fail,
                   conn_frames, roi_calls, last, t0, hist, req, decision>>

(***************************************************************************)
(* ok, frame = cap.read() with ok true, and the rest of the iteration:     *)
(* grayscale, region, differencing, snapshot, emission, cadence report.    *)
(* cv2.absdiff raises on operands of different shapes and np.max raises    *)
(* on an empty array; neither is caught, so the script ends there.         *)
(***************************************************************************)
ProcessFrame(f) ==
    LET need  == variant = "roi" /\ NeedRoi(roi_box)
        box   == IF variant = "full" THEN FullFrame
                 ELSE IF need THEN calculate_roi_box(f.h, f.w) ELSE roi_box
        cur   == Snapshot(f, box)
        had   == prev # None
        mism  == had /\ Shape(prev) # Shape(cur)
        empty == had /\ ~mism /\ Rows(cur) * Cols(cur) = 0
        st    == IF had /\ ~mism /\ ~empty THEN Stats(prev, cur) ELSE ZeroStats
        vw    == IF had /\ ~mism /\ ~empty THEN Views(prev, cur) ELSE NoView
        idx   == frames + 1
        emit  == EmitDecision(had, idx, st.changed)
        rep   == ReportDecision(had, idx)
        obs   == [first |-> ~conn_frames,
                  second |-> last.kind = "ok" /\ last.obs.first,
                  after_fail |-> since_fail, view |-> vw,
                  had_prev |-> had,
                  stale |-> had /\ prev_stale, roi_called |-> need,
                  fresh_box |-> (variant = "roi") =>
                                    (box = calculate_roi_box(f.h, f.w)),
                  pshape |-> IF had THEN Shape(prev) ELSE <<0, 0>>,
                  cshape |-> Shape(cur)]
    IN  /\ pc = "read"
        /\ cap.state = "opened"
        /\ frames < MaxFrames
        /\ since_fail' = FALSE
        /\ conn_frames' = TRUE
        /\ roi_calls' = Min2(roi_calls + (IF need THEN 1 ELSE 0), CallCap)
        /\ roi_box' = IF variant = "roi" THEN box ELSE roi_box
        /\ h' = IF variant = "roi" \/ (~(mism \/ empty) /\ rep) THEN f.h ELSE h
        /\ w' = IF variant = "roi" \/ (~(mism \/ empty) /\ rep) THEN f.w ELSE w
        /\ IF mism \/ empty
           THEN /\ pc' = "crashed"
                /\ last' = [kind |-> "crash", obs |-> obs]
                /\ UNCHANGED <<frames, prev, prev_stale>>
           ELSE /\ pc' = "read"
                /\ prev' = cur
                /\ prev_stale' = FALSE
                /\ frames' = idx
                /\ last' = [kind |-> "ok", obs |-> obs, idx |-> idx,
                            changed |-> st.changed, maxd |-> st.maxd,
                            sumd |-> st.sumd, area |-> st.area,
                            emitted |-> emit, reported |-> rep]
        /\ UNCHANGED <<variant, caller, i, cap, tries, waited, opened_at,
                       open_result, connected_once, ocap, t0, fail_wait,
                       req, decision>>

ReadOk == \E f \in Palette(variant) : ProcessFrame(f) /\ UNCHANGED hist

Next ==
    \/ Start
    \/ AttemptOpened
    \/ AttemptFailed
    \/ OpenSleep
    \/ Setup
    \/ ReadOk
    \/ ReadFail
    \/ FailSleep
    \/ Release
    \/ Reopen
    \/ Reset

Spec == Init /\ [][Next]_vars

(***************************************************************************)
(* calculate_roi_box on its own: every frame size up to MaxHeight by       *)
(* MaxWidth is resolved once.                                              *)
(***************************************************************************)
InitRoi ==
    /\ variant = "roi"
    /\ pc = "resolve"
    /\ caller = "init"
    /\ i = 0
    /\ cap = NoHandle
    /\ frames = 0
    /\ prev = None
    /\ roi_box = None
    /\ h \in 1..MaxHeight
    /\ w \in 1..MaxWidth
    /\ tries = 0
    /\ waited = 0
    /\ opened_at = 0
    /\ open_result = "none"
    /\ connected_once = FALSE
    /\ since_fail = FALSE
    /\ prev_stale = FALSE
    /\ conn_frames = FALSE
    /\ roi_calls = 0
    /\ last = NoLast
    /\ ocap = NoHandle
    /\ t0 = Unset
    /\ fail_wait = 0
    /\ hist = NoHist
    /\ req = NoRequest
    /\ decision = "none"

\* roi_box = calculate_roi_box(h, w)
ResolveRoi ==
    /\ pc = "resolve"
    /\ roi_box' = calculate_roi_box(h, w)
    /\ pc' = "resolved"
    /\ UNCHANGED <<variant, caller, i, cap, frames, prev, h, w, tries, waited,
                   opened_at, open_result, connected_once, since_fail,
                   prev_stale, conn_frames, roi_calls, last, ocap, t0,
                   fail_wait, hist, req, decision>>

NextRoi == ResolveRoi

SpecRoi == InitRoi /\ [][NextRoi]_vars

(***************************************************************************)
(* The record of a run: the frame index in the file name of the latest     *)
(* emission and of the one before it, the changed-pixel count of the       *)
(* latest emission, and the frame index of the latest cadence report and   *)
(* of the one before it.  Index 0 stands for "none yet".                   *)
(***************************************************************************)
Observe ==
    IF last'.kind # "ok" THEN hist
    ELSE [emit_idx     |-> IF last'.emitted THEN last'.idx ELSE hist.emit_idx,
          prev_emit    |-> IF last'.emitted THEN hist.emit_idx ELSE hist.prev_emit,
          emit_changed |-> IF last'.emitted THEN last'.changed
                           ELSE hist.emit_changed,
          report_idx   |-> IF last'.reported THEN last'.idx ELSE hist.report_idx,
          prev_report  |-> IF last'.reported THEN hist.report_idx
                           ELSE hist.prev_report]

(***************************************************************************)
(* worker.py fed one frame over and over: the source never fails a read    *)
(* and every frame equals the first one.                                   *)
(***************************************************************************)
InitSame == Init /\ variant = "full"

ReadSame ==
    \E f \in Palette(variant) :
        /\ prev # None => prev.f = f
        /\ ProcessFrame(f)
        /\ hist' = Observe

NextSame ==
    \/ Start
    \/ AttemptOpened
    \/ AttemptFailed
    \/ OpenSleep
    \/ Setup
    \/ ReadSame

SpecSame == InitSame /\ [][NextSame]_vars

(***************************************************************************)
(* The differencing on its own: either script, connected at the first      *)
(* attempt, reads DiffFrames frames drawn from DiffPalette.                *)
(***************************************************************************)
ReadDiff ==
    /\ frames < DiffFrames
    /\ \E f \in DiffPalette(variant) : ProcessFrame(f) /\ UNCHANGED hist

NextDiff ==
    \/ Start
    \/ AttemptOpened
    \/ Setup
    \/ ReadDiff

SpecDiff == Init /\ [][NextDiff]_vars

(***************************************************************************)
(* Either script with its emissions and reports recorded, over the first   *)
(* ShortFrames frames of a run.                                            *)
(***************************************************************************)
ReadRec ==
    /\ frames < ShortFrames
    /\ \E f \in Palette(variant) : ProcessFrame(f) /\ hist' = Observe

NextRec ==
    \/ Start
    \/ AttemptOpened
    \/ AttemptFailed
    \/ OpenSleep
    \/ Setup
    \/ ReadRec
    \/ ReadFail
    \/ FailSleep
    \/ Release
    \/ Reopen
    \/ Reset

SpecRec == Init /\ [][NextRec]_vars

(***************************************************************************)
(* app.py on its own: validate answers a request; it keeps no state from    *)
(* one request to the next.                                                *)
(***************************************************************************)
InitAuth ==
    /\ variant = "full"
    /\ pc = "validate"
    /\ caller = "init"
    /\ i = 0
    /\ cap = NoHandle
    /\ frames = 0
    /\ prev = None
    /\ roi_box = None
    /\ h = 0
    /\ w = 0
    /\ tries = 0
    /\ waited = 0
    /\ opened_at = 0
    /\ open_result = "none"
    /\ connected_once = FALSE
    /\ since_fail = FALSE
    /\ prev_stale = FALSE
    /\ conn_frames = FALSE
    /\ roi_calls = 0
    /\ last = NoLast
    /\ ocap = NoHandle
    /\ t0 = Unset
    /\ fail_wait = 0
    /\ hist = NoHist
    /\ req \in Requests
    /\ decision = "none"

\* GET /validate
Validate ==
    /\ pc = "validate"
    /\ decision' = validate(req)
    /\ pc' = "responded"
    /\ UNCHANGED <<variant, caller, i, cap, frames, prev, roi_box, h, w, tries,
                   waited, opened_at, open_result, connected_once, since_fail,
                   prev_stale, conn_frames, roi_calls, last, ocap, t0,
                   fail_wait, hist, req>>

NextAuth == Validate

SpecAuth == InitAuth /\ [][NextAuth]_vars

(***************************************************************************)
(* Either script on a source that opens within the OpenRetries attempts    *)
(* of every open cycle and that, read again and again, delivers a frame    *)
(* sooner or later.  The script is one sequential process: whenever it     *)
(* has a next step it takes one (weak fairness of the whole step); the     *)
(* source's delivery is strong fairness of the successful read, which is   *)
(* enabled only each time the loop is back at cap.read().                  *)
(***************************************************************************)
AttemptFailedWithin ==
    /\ tries + 1 < OpenRetries
    /\ AttemptFailed

ReadLive ==
    /\ frames < ShortFrames
    /\ ReadOk

NextLive ==
    \/ Start
    \/ AttemptOpened
    \/ AttemptFailedWithin
    \/ OpenSleep
    \/ Setup
    \/ ReadLive
    \/ ReadFail
    \/ FailSleep
    \/ Release
    \/ Reopen
    \/ Reset

SpecLive ==
    Init /\ [][NextLive]_vars /\ WF_vars(NextLive) /\ SF_vars(ReadLive)

(***************************************************************************)
(* Properties.                                                             *)
(***************************************************************************)

\* C1: after a read failure the prior snapshot and the region are absent
\* when the loop reads again, and no frame is differenced against a
\* snapshot taken before an intervening read failure.
C1_NoStaleComparison ==
    /\ (pc = "read" /\ since_fail) => (prev = None /\ roi_box = None)
    /\ (last.kind # "none") => ~last.obs.stale

C1_Witness ==
    /\ last.kind = "ok"
    /\ last.obs.after_fail
    /\ ~last.obs.had_prev
    /\ last.idx > 1

\* C2: once the initial open has succeeded, nothing that happens during
\* reconnection terminates the process.
C2_ReconnectNeverFatal == connected_once => pc # "exited"

\* C3: a processed frame emits exactly when a prior snapshot exists and the
\* index is a multiple of 150 or the changed-pixel count is strictly above
\* the variant's bar; the first frame of a connection never emits.
C3_EmitIff ==
    last.kind = "ok" =>
        /\ last.emitted <=>
              (/\ last.obs.had_prev
               /\ \/ last.idx % Cadence = 0
                  \/ last.changed > (IF variant = "full" THEN FullBar ELSE RoiBar))
        /\ last.obs.first => ~last.emitted

C3_Witness ==
    /\ last.kind = "ok"
    /\ last.obs.had_prev
    /\ last.idx % Cadence # 0
    /\ last.changed = (IF variant = "full" THEN FullBar ELSE RoiBar)
    /\ ~last.emitted

InFrame(b) == 0 <= b.x1 /\ b.x2 <= w /\ 0 <= b.y1 /\ b.y2 <= h

AtLeastFloor(b) == b.x2 - b.x1 >= MinBox /\ b.y2 - b.y1 >= MinBox

InRightHalf(b) == b.x1 >= w \div 2 /\ b.x2 <= w

Centred(b) ==
    /\ Abs((b.x1 - w \div 2) - (w - b.x2)) <= 1
    /\ Abs(b.y1 - (h - b.y2)) <= 1

QuarterSized(b) ==
    /\ b.x2 - b.x1 = Max2((w - w \div 2) \div 4, MinBox)
    /\ b.y2 - b.y1 = Max2(h \div 4, MinBox)

\* C5 as stated: for every frame size the region lies within the right half
\* of the frame, is centred there and has the quarter size floored at 50.
C5_Original ==
    pc = "resolved" =>
        (InRightHalf(roi_box) /\ Centred(roi_box) /\ QuarterSized(roi_box))

\* C5: for every frame size the region is centred in the right half and has
\* the quarter size floored at 50; it lies within the right half whenever
\* that half is at least 50 wide.
C5_RightHalfWhenWideEnough ==
    pc = "resolved" =>
        /\ Centred(roi_box)
        /\ QuarterSized(roi_box)
        /\ (w - w \div 2 >= MinBox) => InRightHalf(roi_box)

C5_Witness ==
    /\ pc = "resolved"
    /\ w = 99
    /\ roi_box.x1 = 49
    /\ roi_box.x2 = 99

\* C6: open_capture makes at most 30 attempts, returns on the first attempt
\* that reports opened, sleeps 1 between consecutive attempts, and raises
\* exactly when all 30 attempts failed.
C6_OpenCapture ==
    /\ tries <= OpenRetries
    /\ opened_at # 0 => (tries = opened_at /\ open_result = "returned")
    /\ open_result = "returned" =>
          (opened_at = tries /\ waited = (tries - 1) * RetryDelay)
    /\ pc = "attempt" => waited = tries * RetryDelay
    /\ open_result = "raised" => (tries = OpenRetries /\ opened_at = 0)
    /\ (tries = OpenRetries /\ opened_at = 0 /\ pc # "open_sleep") =>
          (open_result = "raised" /\ pc = "exited")
    /\ pc = "exited" => open_result = "raised"

C6_Witness ==
    /\ open_result = "returned"
    /\ caller = "reconnect"
    /\ opened_at = OpenRetries

\* C7: in the ROI variant, whenever the loop is about to read, the prior
\* snapshot and the region are both present or both absent.
C7_PrevAndRegionTogether ==
    (variant = "roi" /\ pc = "read") => ((prev = None) <=> (roi_box = None))

C7_Witness ==
    /\ variant = "roi"
    /\ pc = "read"
    /\ since_fail
    /\ frames > 1
    /\ prev = None
    /\ roi_box = None

\* C8: whenever a frame is differenced against the prior snapshot, the two
\* have the same shape.
C8_SameShapeCompared ==
    (last.kind # "none" /\ last.obs.had_prev) => last.obs.pshape = last.obs.cshape

\* C9: in the ROI variant calculate_roi_box is called on the first frame of
\* a connection and on no later frame of it, so once per connection that
\* delivers a frame.
C9_RoiOncePerConnection ==
    variant = "roi" =>
        /\ roi_calls = (IF conn_frames THEN 1 ELSE 0)
        /\ last.kind # "none" => (last.obs.roi_called <=> last.obs.first)

C9_Witness ==
    /\ variant = "roi"
    /\ last.kind = "ok"
    /\ ~last.obs.first
    /\ ~last.obs.roi_called
    /\ roi_calls = 1
    /\ conn_frames
    /\ connected_once
    /\ frames > 3

\* C10: a processed frame is reported exactly when its index is a multiple
\* of 150, whatever the emission decision; without a prior snapshot the
\* report carries zero statistics and nothing is emitted.
C10_ReportIff ==
    last.kind = "ok" =>
        /\ last.reported <=> (last.idx % Cadence = 0)
        /\ (last.reported /\ ~last.obs.had_prev) =>
              (last.changed = 0 /\ last.maxd = 0 /\ last.sumd = 0 /\ ~last.emitted)

C10_Witness ==
    /\ last.kind = "ok"
    /\ last.idx = Cadence
    /\ ~last.obs.had_prev
    /\ last.reported
    /\ ~last.emitted

\* C11: in worker.py, after 151 identical frames read without a failure
\* from process start, there has been exactly one emission, at frame index
\* 150 and with changed-pixel count 0, and exactly one cadence report, at
\* frame index 150; before frame 150 there has been neither.
C11_OneEmissionOneReport ==
    /\ frames < Cadence => hist = NoHist
    /\ frames \in {Cadence, Cadence + 1} =>
           hist = [emit_idx |-> Cadence, prev_emit |-> 0, emit_changed |-> 0,
                   report_idx |-> Cadence, prev_report |-> 0]

C11_Witness ==
    /\ frames = Cadence + 1
    /\ last.kind = "ok"
    /\ hist.emit_idx = Cadence
    /\ hist.report_idx = Cadence

\* C12: in worker2.py, when the second frame of a connection has more than
\* 100 changed pixels in the region it is emitted, and the canvas of every
\* emission is zero at every pixel outside the region's box and shows the
\* difference of the two frames at every pixel inside it.
C12_RoiEmissionAndCanvas ==
    (variant = "roi" /\ last.kind = "ok") =>
        /\ (last.obs.second /\ last.changed > RoiBar) => last.emitted
        /\ last.emitted => last.obs.view.canvas_ok

C12_Witness ==
    /\ variant = "roi"
    /\ last.kind = "ok"
    /\ last.obs.second
    /\ last.idx = 2
    /\ last.changed > RoiBar
    /\ last.idx % Cadence # 0
    /\ last.emitted
    /\ last.obs.view.canvas_ok

\* C13: a frame whose region is pixel-for-pixel identical to the prior
\* snapshot has changed-pixel count 0, maximum difference 0 and mean
\* difference 0, and is emitted only when its index is a multiple of 150.
C13_IdenticalRegion ==
    (last.kind = "ok" /\ last.obs.had_prev /\ last.obs.view.same) =>
        /\ last.changed = 0
        /\ last.maxd = 0
        /\ last.sumd = 0
        /\ last.emitted => last.idx % Cadence = 0

C13_Witness ==
    /\ last.kind = "ok"
    /\ last.obs.had_prev
    /\ last.obs.view.same
    /\ last.area > 0
    /\ last.emitted
    /\ last.idx = Cadence

\* C14: when every pixel of the region differs from the prior snapshot by
\* exactly 11 the changed-pixel count is the region's pixel count, and when
\* every pixel differs by exactly 10 the count is 0; the maximum and the
\* mean (the sum over the region's pixel count) are those of all pixels.
C14_StrictThreshold ==
    (last.kind = "ok" /\ last.obs.had_prev) =>
        /\ last.obs.view.all_11 =>
               /\ last.changed = last.area
               /\ last.maxd = change_threshold + 1
               /\ last.sumd = (change_threshold + 1) * last.area
        /\ last.obs.view.all_10 =>
               /\ last.changed = 0
               /\ last.maxd = change_threshold
               /\ last.sumd = change_threshold * last.area
        /\ last.changed <= last.area
        /\ last.sumd <= last.maxd * last.area

C14_Witness ==
    /\ last.kind = "ok"
    /\ last.obs.had_prev
    /\ last.obs.view.all_11
    /\ last.area = SmallHeight * SmallWidth
    /\ last.changed = last.area

\* C15: frames grows by exactly 1 in every iteration that processes a read
\* frame and is left alone by every other step (the read failure, the
\* reconnection, and the setup that first sets it to 0), so it never
\* decreases; t0 is never changed once it has been set.
C15_RunCounters ==
    [][ /\ frames' >= frames
        /\ (pc = "read" /\ pc' = "read") => frames' = frames + 1
        /\ ~(pc = "read" /\ pc' = "read") => frames' = frames
        /\ t0 # Unset => t0' = t0 ]_vars

C15_Witness ==
    /\ last.kind = "ok"
    /\ last.obs.after_fail
    /\ frames >= 2
    /\ last.idx = frames
    /\ t0 = [taken |-> "setup"]

OpenHandles ==
    (IF cap.state = "opened" THEN 1 ELSE 0) + (IF ocap.state = "opened" THEN 1 ELSE 0)

\* C16: after a read failure the loop first sleeps 0.5, then closes the
\* handle, then enters open_capture; while open_capture runs in the
\* reconnection the old handle is already closed, the handle read from
\* afterwards is the one that call constructed, and the script never holds
\* two opened handles.
C16_ReconnectOrder ==
    /\ pc = "fail_sleep" => (fail_wait = 0 /\ cap.state = "opened")
    /\ pc = "release" => (fail_wait = FailDelayTenths /\ cap.state = "opened")
    /\ pc = "reopen" => (fail_wait = FailDelayTenths /\ cap.state = "released")
    /\ (caller = "reconnect" /\ pc \in {"attempt", "open_sleep", "reset"}) =>
           /\ fail_wait = FailDelayTenths
           /\ cap = [state |-> "released", born |-> "earlier"]
    /\ (caller = "reconnect" /\ pc = "read") => cap = NewHandle("opened")
    /\ OpenHandles <= 1

C16_Witness ==
    /\ caller = "reconnect"
    /\ pc = "read"
    /\ since_fail
    /\ cap = NewHandle("opened")
    /\ fail_wait = 0

\* C17: the frame index in the file name of an emission is greater than
\* the index in the file name of the emission before it, whatever read
\* failures and reconnections lie between them.
C17_EmissionIndexIncreases ==
    /\ hist.emit_idx # 0 => hist.prev_emit < hist.emit_idx
    /\ hist.emit_idx <= frames

C17_Witness ==
    /\ caller = "reconnect"
    /\ last.kind = "ok"
    /\ last.emitted
    /\ hist.emit_idx = last.idx
    /\ hist.prev_emit >= 1

\* C19: whenever the loop is about to read, cap is a handle that
\* open_capture returned as opened and that has not been released; and
\* after a failed open attempt the script is still inside open_capture or
\* has ended, so it does not read.
C19_ReadsOnOpenHandle ==
    /\ pc = "read" => (cap.state = "opened" /\ ocap = NoHandle)
    /\ cap.state \in {"released", "unbound"} => pc # "read"
    /\ ocap.state = "closed" => pc \in {"attempt", "open_sleep", "exited"}

C19_Witness ==
    /\ pc = "read"
    /\ since_fail
    /\ cap.state = "opened"
    /\ frames >= 1

\* the pieces of t between one "&" (or the start) and the next (or the end)
Cuts(t) == {0, Len(t) + 1} \cup {j \in 1..Len(t) : t[j] = "&"}

PairAt(t, a) ==
    LET b == CHOOSE c \in Cuts(t) : c > a /\ \A d \in Cuts(t) : d > a => c <= d
    IN  SubSeq(t, a + 1, b - 1)

HasTokenKey(pair) ==
    /\ Len(pair) >= 1
    /\ pair[1] = "token"
    /\ Len(pair) >= 2 => pair[2] = "="

TokenStarts(t) == {a \in Cuts(t) : a <= Len(t) /\ HasTokenKey(PairAt(t, a))}

\* the token the gate goes by: the direct one unless absent or empty, else
\* the value of the first pair of args whose key is token
EffectiveToken(r) ==
    IF r.token.given /\ r.token.text # <<>> THEN r.token.text
    ELSE IF r.args.given /\ TokenStarts(r.args.text) # {}
    THEN LET a == CHOOSE x \in TokenStarts(r.args.text) :
                      \A y \in TokenStarts(r.args.text) : x <= y
             pair == PairAt(r.args.text, a)
         IN  SubSeq(pair, 3, Len(pair))
    ELSE <<"no token">>

Allowed(r) ==
    /\ r.name.given
    /\ r.name.text = <<"mystream">>
    /\ EffectiveToken(r) = <<"supersecret">>

\* C18: validate answers 200 exactly when the name is mystream and the
\* token is supersecret, the token being the direct parameter or, when
\* that is absent or empty, the value of the first token key in args; it
\* answers 403 otherwise, also when the direct token is wrong and args
\* carries the right one.
C18_GateAllowsIff ==
    pc = "responded" =>
        /\ decision \in {200, 403}
        /\ decision = 200 <=> Allowed(req)
        /\ (req.token = Given(<<"wrong">>)) => decision = 403

C18_Witness ==
    /\ pc = "responded"
    /\ decision = 200
    /\ req.token = Given(<<>>)
    /\ req.args = Given(<<"=", "&", "token", "=", "supersecret">>)

\* C20: when every open cycle succeeds and the source eventually delivers,
\* every read failure leads to the loop reading from a new opened handle
\* with frames unchanged, and on to a frame processed as the first of its
\* connection; the script never ends in open_capture, and a read failure
\* leaves frames as it was.
C20_FailureLeadsToFrame ==
    /\ \A n \in 0..ShortFrames :
           (pc = "fail_sleep" /\ frames = n) ~>
               (pc = "read" /\ since_fail /\ frames = n
                    /\ cap = NewHandle("opened"))
    /\ \A n \in 0..(ShortFrames - 1) :
           (pc = "fail_sleep" /\ frames = n) ~>
               (pc = "read" /\ last.kind = "ok" /\ last.obs.after_fail
                    /\ frames = n + 1)
    /\ [](pc # "exited")
    /\ [][(pc = "read" /\ pc' = "fail_sleep") => frames' = frames]_vars

C20_Witness ==
    /\ pc = "read"
    /\ last.kind = "ok"
    /\ last.obs.after_fail
    /\ caller = "reconnect"
    /\ frames >= 2

====
